---------------------------- MODULE Spec2Model ----------------------------
(***************************************************************************)
(* A model of server/services/judge0Service.js: the Judge0Service class    *)
(* that submits source code to the remote Judge0 engine, polls for the     *)
(* result, shapes it, and runs batches of test cases.                      *)
(*                                                                         *)
(* Texts (JavaScript strings) are sequences of symbols.  A symbol is one   *)
(* character, or one literal of the source taken as a whole (such as       *)
(* "Submission timeout"); whitespace is always one character per symbol,   *)
(* so that trim() and the CRLF replacement can be computed as the code     *)
(* computes them.  The empty string is the empty sequence.  null and       *)
(* undefined are the reserved text `null`, which no program text equals.   *)
(***************************************************************************)
EXTENDS Integers, Sequences, FiniteSets, TLC

(***************************************************************************)
(* Bounds of the model.                                                    *)
(***************************************************************************)
\* The longest batch of test cases.
MaxCases == 2
\* The environment acts freely (the engine changes a job's status, a fetch
\* fails or is slow) only within this many milliseconds of the creation of
\* the job; after it a job that is still pending stays pending and fetches
\* succeed at once.
ActiveMs == 500
\* The latency of a slow status fetch, in milliseconds.
SlowFetchMs == 1000

(***************************************************************************)
(* Program constants.                                                      *)
(***************************************************************************)
\* waitForSubmission(token, maxWaitTime = 30000)
DefaultMaxWaitTime == 30000
\* executeCode: this.waitForSubmission(token, 15000)
ExecMaxWaitTime == 15000
\* setTimeout(resolve, 1000)
PollIntervalMs == 1000

(***************************************************************************)
(* JavaScript values.                                                      *)
(***************************************************************************)
null == <<"(null)">>

\* JavaScript truthiness of a text: null, undefined and '' are falsy.
Truthy(v) == v # null /\ v # <<>>

\* a || b
Or(a, b) == IF Truthy(a) THEN a ELSE b

Upper == <<"A","B","C","D","E","F","G","H","I","J","K","L","M",
           "N","O","P","Q","R","S","T","U","V","W","X","Y","Z">>
Lower == <<"a","b","c","d","e","f","g","h","i","j","k","l","m",
           "n","o","p","q","r","s","t","u","v","w","x","y","z">>

LowerChar(ch) ==
    IF \E k \in DOMAIN Upper : Upper[k] = ch
    THEN Lower[CHOOSE k \in DOMAIN Upper : Upper[k] = ch]
    ELSE ch

\* String.prototype.toLowerCase
toLowerCase(s) == [k \in DOMAIN s |-> LowerChar(s[k])]

(***************************************************************************)
(* The language table.                                                     *)
(***************************************************************************)
\* this.languageMap: the own properties of the object literal.
languageMap ==
    ( <<"c">>                                     :> 50 ) @@
    ( <<"c","p","p">>                             :> 54 ) @@
    ( <<"j","a","v","a">>                         :> 62 ) @@
    ( <<"p","y","t","h","o","n">>                 :> 71 ) @@
    ( <<"j","a","v","a","s","c","r","i","p","t">> :> 63 )

\* languageMap is a plain object literal, so a property read that finds no
\* own property goes on to Object.prototype.  These are the names it holds.
ObjectPrototypeKeys ==
    { <<"c","o","n","s","t","r","u","c","t","o","r">>,
      <<"_","_","p","r","o","t","o","_","_">>,
      <<"t","o","S","t","r","i","n","g">>,
      <<"v","a","l","u","e","O","f">>,
      <<"h","a","s","O","w","n","P","r","o","p","e","r","t","y">> }

\* this.languageMap[key]: a number for an own key, an inherited function or
\* object (truthy) for a name of Object.prototype, undefined otherwise.
PropertyRead(key) ==
    IF key \in DOMAIN languageMap
    THEN [kind |-> "number", n |-> languageMap[key]]
    ELSE IF key \in ObjectPrototypeKeys
         THEN [kind |-> "inherited", name |-> key]
         ELSE [kind |-> "undefined"]

\* !languageId
Falsy(languageId) == languageId.kind = "undefined"

\* getSupportedLanguages()
getSupportedLanguages == DOMAIN languageMap

\* getLanguageId(language)
getLanguageId(language) == PropertyRead(toLowerCase(language))


(***************************************************************************)
(* Inputs.                                                                 *)
(***************************************************************************)
\* The language arguments tried: supported names in several spellings,
\* unknown names, the empty string, and names of Object.prototype.
Languages ==
    { <<"p","y","t","h","o","n">>,
      <<"C","p","p">>,
      <<"J","A","V","A">>,
      <<"r","u","b","y">>,
      <<>>,
      <<"c","o","n","s","t","r","u","c","t","o","r">>,
      <<"_","_","p","r","o","t","o","_","_">>,
      <<"t","o","S","t","r","i","n","g">> }

\* The language arguments of the calls that go on to poll.
RunLanguages ==
    { <<"p","y","t","h","o","n">>, <<"r","u","b","y">> }

\* The stdin arguments of submitCode and executeCode.
Inputs == { <<>>, <<"1"," ","2">>, <<"5">> }

\* The test cases a batch is made of, in the order they are given.
AllCases ==
    << [id |-> 1, input_data |-> <<"1"," ","2">>,
        expected_output |-> <<"3">>, is_sample |-> TRUE],
       [id |-> 2, input_data |-> <<"5">>,
        expected_output |-> <<>>, is_sample |-> FALSE],
       [id |-> 3, input_data |-> <<>>,
        expected_output |-> <<"3","\r","\n">>, is_sample |-> FALSE] >>

TestCaseLists == { SubSeq(AllCases, 1, n) : n \in 0..MaxCases }

\* The arguments of a direct call of compareOutput: absent, empty, blank,
\* and texts that differ in outer white space, in line ends, or in more.
Outputs ==
    { null, <<>>, <<" ">>, <<"\r", "\n">>,
      <<"x">>, <<" ", "x", " ", "\n">>, <<"\t", "x", "\r", "\n">>,
      <<"x", "\r", "\n", "y">>, <<"x", "\n", "y">>, <<"x", "\n", "y", "\n">>,
      <<"x", "\r", "y">>, <<"x", " ", "y">> }

\* The maxWaitTime arguments of a direct call of waitForSubmission.
WaitBudgets == { 500, 1000, 3000 }

(***************************************************************************)
(* The remote engine and the transport.                                    *)
(***************************************************************************)
\* The base64 form of a text: a text that starts with a marker symbol.  The
\* base64 form of '' is ''.
Base64Of(t) == IF t = <<>> \/ t = null THEN t ELSE <<"base64:">> \o t

\* Buffer.from(w, 'base64').toString('utf-8'): characters outside the
\* base64 alphabet are skipped, so a text without any decodes to ''.
Base64Decode(w) ==
    IF Len(w) > 0 /\ Head(w) = "base64:" THEN Tail(w) ELSE <<>>

\* Status ids: 1 In Queue, 2 Processing, 3 Accepted, 4 Wrong Answer,
\* 5 Time Limit Exceeded, 6 Compilation Error, 11 Runtime Error (NZEC).
PendingIds == {1, 2}
TerminalIds == {3, 4, 5, 6, 11}

\* A response without a status object.
NoStatus == [absent |-> TRUE]

\* What the engine may report for stdout, stderr and compile_output, as
\* sent (base64, or a text that is not base64 at all).
AllOutputs ==
    [stdout |-> Base64Of(<<"3","\n">>), stderr |-> Base64Of(<<"warn">>),
     compile_output |-> Base64Of(<<"note">>)]

StdoutOnly ==
    [stdout |-> Base64Of(<<"3","\n">>), stderr |-> null,
     compile_output |-> null]

NotBase64 ==
    [stdout |-> <<"!","!">>, stderr |-> null, compile_output |-> null]

NoOutputs == [stdout |-> null, stderr |-> null, compile_output |-> null]

\* The outputs tried with each status id.
WireOutputs(sid) ==
    IF sid = 3 THEN {AllOutputs, StdoutOnly, NotBase64, NoOutputs}
    ELSE IF sid \in {4, 6} THEN {AllOutputs, StdoutOnly}
    ELSE IF sid \in TerminalIds THEN {AllOutputs}
    ELSE {NoOutputs}

\* The status descriptions tried with each status id.
Descriptions(sid) ==
    IF sid \in {3, 4, 5, 6}
    THEN { <<"status description">> }
    ELSE { <<"status description">>, null }

\* The body of GET /submissions/:token for a job whose status id is sid
\* (0: the body has no status object).
WireResponses(sid) ==
    { [status |-> IF sid = 0 THEN NoStatus
                  ELSE [id |-> sid, description |-> d],
       stdout |-> o.stdout, stderr |-> o.stderr,
       compile_output |-> o.compile_output,
       time |-> IF sid \in TerminalIds THEN <<"0.01">> ELSE null,
       memory |-> IF sid \in TerminalIds THEN <<"3456">> ELSE null] :
      d \in Descriptions(sid), o \in WireOutputs(sid) }

\* How axios.post may end: a token, an HTTP error status, or no response.
PostOutcomes ==
    { [kind |-> "token", token |-> <<"tok">>] } \cup
    { [kind |-> "http", status |-> st,
       message |-> <<"Request failed with status code">>] :
      st \in {401, 429, 500, 422} } \cup
    { [kind |-> "network", message |-> <<"Network Error">>] }

\* undefined, as an element of the interpretation list.
NoInterpretation == [undefined |-> TRUE]

(***************************************************************************)
(* Pure functions of the service.                                          *)
(***************************************************************************)
\* What String.prototype.trim removes.
WhiteSpace == {" ", "\t", "\n", "\r"}

RECURSIVE TrimStart(_)
TrimStart(s) ==
    IF s # <<>> /\ Head(s) \in WhiteSpace THEN TrimStart(Tail(s)) ELSE s

RECURSIVE TrimEnd(_)
TrimEnd(s) ==
    IF s # <<>> /\ s[Len(s)] \in WhiteSpace
    THEN TrimEnd(SubSeq(s, 1, Len(s) - 1))
    ELSE s

\* s.trim()
Trim(s) == TrimEnd(TrimStart(s))

\* s.replace(/\r\n/g, '\n')
RECURSIVE ReplaceCRLF(_)
ReplaceCRLF(s) ==
    IF s = <<>> THEN <<>>
    ELSE IF Len(s) >= 2 /\ s[1] = "\r" /\ s[2] = "\n"
         THEN <<"\n">> \o ReplaceCRLF(SubSeq(s, 3, Len(s)))
         ELSE <<s[1]>> \o ReplaceCRLF(Tail(s))

\* A mutant of compareOutput: absent and empty arguments are compared like
\* any other.
compareOutputUnguarded(a, e) ==
    ReplaceCRLF(Trim(a)) = ReplaceCRLF(Trim(e))

\* compareOutput(actual, expected)
compareOutput(a, e) ==
    IF ~Truthy(a) \/ ~Truthy(e) THEN FALSE
    ELSE ReplaceCRLF(Trim(a)) = ReplaceCRLF(Trim(e))

\* One field of decodeBase64Response: a truthy string is decoded, anything
\* else is left as received.
DecodeField(v) == IF Truthy(v) THEN Base64Decode(v) ELSE v

\* decodeBase64Response(data)
decodeBase64Response(data) ==
    [data EXCEPT !.stdout = DecodeField(@),
                 !.stderr = DecodeField(@),
                 !.compile_output = DecodeField(@)]

\* result.status (is there a status object)
HasStatus(result) == result.status # NoStatus

\* A mutant of IsCompleted: status 2 (Processing) counts as completed.
IsCompletedFromProcessing(result) ==
    HasStatus(result) /\ result.status.id >= 2

\* result.status && result.status.id > 2
IsCompleted(result) == HasStatus(result) /\ result.status.id > 2

\* result.status?.id === n
StatusIs(result, n) == HasStatus(result) /\ result.status.id = n

\* result.status?.description
StatusDescription(result) ==
    IF HasStatus(result) THEN result.status.description ELSE null

\* new Error(message)
Error(message) == [message |-> message]

\* The catch block of submitCode: the error it throws for the error caught.
\* status is the status of error.response, 0 when there is no response.
SubmitCatch(message, status) ==
    IF status = 401
    THEN Error(<<"Judge0 API key is invalid or missing. Please check your JUDGE0_API_KEY environment variable.">>)
    ELSE IF status = 429
    THEN Error(<<"Judge0 API rate limit exceeded. Please try again later.">>)
    ELSE IF status = 500
    THEN Error(<<"Judge0 service is temporarily unavailable. Please try again later.">>)
    ELSE Error(<<"Failed to submit code: ">> \o message)

\* throw new Error(`Unsupported language: ${language}`), as the catch block
\* of submitCode rethrows it.
UnsupportedLanguage(lang) ==
    SubmitCatch(<<"Unsupported language: ">> \o lang, 0)

\* The catch block of getSubmissionResult.
FetchCatch(message) ==
    Error(<<"Failed to get submission result: ">> \o message)

\* throw new Error('Submission timeout')
SubmissionTimeout == Error(<<"Submission timeout">>)

\* interpretation.formatted_input of an undefined interpretation.
InterpretationTypeError ==
    Error(<<"Cannot read properties of undefined (reading 'formatted_input')">>)

\* executeCode, status 3 (Accepted).
execAccepted(result) ==
    [result EXCEPT !.stdout = Or(@, <<"No output">>),
                   !.stderr = Or(@, <<>>),
                   !.compile_output = Or(@, <<>>)]

\* executeCode, status 6 (Compilation Error).
execCompilationError(result) ==
    [result EXCEPT !.stdout = <<>>,
                   !.stderr = <<>>,
                   !.compile_output = Or(@, <<"Compilation Error">>)]

\* executeCode, status 5 (Time Limit Exceeded).
execTimeLimit(result) ==
    [result EXCEPT !.stdout = <<>>,
                   !.stderr = <<"Time Limit Exceeded">>,
                   !.compile_output = <<>>]

\* executeCode, any other status.
execOther(result) ==
    [result EXCEPT !.stdout = Or(@, <<>>),
                   !.stderr = Or(@, <<"Runtime Error">>),
                   !.compile_output = Or(@, <<>>)]

\* A mutant of executeCodeReturn: the branch of status 6 is missing, so a
\* compilation error is shaped by the last branch.
executeCodeReturnNoCE(result) ==
    IF StatusIs(result, 3) THEN execAccepted(result)
    ELSE IF StatusIs(result, 5) THEN execTimeLimit(result)
    ELSE execOther(result)

\* The record executeCode returns for a completed result.
executeCodeReturn(result) ==
    IF StatusIs(result, 3) THEN execAccepted(result)
    ELSE IF StatusIs(result, 6) THEN execCompilationError(result)
    ELSE IF StatusIs(result, 5) THEN execTimeLimit(result)
    ELSE execOther(result)

\* A mutant of caseAccepted: an Accepted run without stdout passes a test
\* case that expects nothing.
caseAcceptedEmptyMatches(testCase, result) ==
    [compared |-> TRUE,
     record |-> [testCase |-> testCase,
                 status |-> IF \/ compareOutput(result.stdout,
                                                testCase.expected_output)
                               \/ /\ ~Truthy(result.stdout)
                                  /\ ~Truthy(testCase.expected_output)
                            THEN "PASSED" ELSE "FAILED",
                 output |-> result.stdout,
                 expected |-> testCase.expected_output,
                 executionTime |-> result.time,
                 memory |-> result.memory,
                 error |-> null]]

\* A batch, status 3 (Accepted): compareOutput decides.
caseAccepted(testCase, result) ==
    [compared |-> TRUE,
     record |-> [testCase |-> testCase,
                 status |-> IF compareOutput(result.stdout,
                                             testCase.expected_output)
                            THEN "PASSED" ELSE "FAILED",
                 output |-> result.stdout,
                 expected |-> testCase.expected_output,
                 executionTime |-> result.time,
                 memory |-> result.memory,
                 error |-> null]]

\* A batch, status 4 (Wrong Answer).
caseWrongAnswer(testCase, result) ==
    [compared |-> FALSE,
     record |-> [testCase |-> testCase,
                 status |-> "FAILED",
                 output |-> result.stdout,
                 expected |-> testCase.expected_output,
                 executionTime |-> result.time,
                 memory |-> result.memory,
                 error |-> null]]

\* A batch, status 5 (Time Limit Exceeded).
caseTimeLimit(testCase, result) ==
    [compared |-> FALSE,
     record |-> [testCase |-> testCase,
                 status |-> "TLE",
                 output |-> null,
                 expected |-> testCase.expected_output,
                 executionTime |-> null,
                 memory |-> null,
                 error |-> <<"Time Limit Exceeded">>]]

\* A batch, status 6 (Compilation Error).
caseCompilationError(testCase, result) ==
    [compared |-> FALSE,
     record |-> [testCase |-> testCase,
                 status |-> "CE",
                 output |-> null,
                 expected |-> testCase.expected_output,
                 executionTime |-> null,
                 memory |-> null,
                 error |-> Or(result.compile_output,
                              <<"Compilation Error">>)]]

\* A mutant of caseOther: the error is the status description, with no
\* default.
caseOtherNoDefault(testCase, result) ==
    [compared |-> FALSE,
     record |-> [testCase |-> testCase,
                 status |-> "ERROR",
                 output |-> null,
                 expected |-> testCase.expected_output,
                 executionTime |-> null,
                 memory |-> null,
                 error |-> StatusDescription(result)]]

\* A batch, any other status.
caseOther(testCase, result) ==
    [compared |-> FALSE,
     record |-> [testCase |-> testCase,
                 status |-> "ERROR",
                 output |-> null,
                 expected |-> testCase.expected_output,
                 executionTime |-> null,
                 memory |-> null,
                 error |-> Or(StatusDescription(result),
                              <<"Unknown Error">>)]]

\* A mutant of caseResult: Wrong Answer is taken with Accepted, and
\* compareOutput decides both.
caseResultComparesWrongAnswer(testCase, result) ==
    IF StatusIs(result, 3) \/ StatusIs(result, 4)
    THEN caseAccepted(testCase, result)
    ELSE IF StatusIs(result, 5) THEN caseTimeLimit(testCase, result)
    ELSE IF StatusIs(result, 6) THEN caseCompilationError(testCase, result)
    ELSE caseOther(testCase, result)

\* The record a batch pushes for a completed result, and whether
\* compareOutput was called to build it.
caseResult(testCase, result) ==
    IF StatusIs(result, 3) THEN caseAccepted(testCase, result)
    ELSE IF StatusIs(result, 4) THEN caseWrongAnswer(testCase, result)
    ELSE IF StatusIs(result, 5) THEN caseTimeLimit(testCase, result)
    ELSE IF StatusIs(result, 6) THEN caseCompilationError(testCase, result)
    ELSE caseOther(testCase, result)

\* The record the per-case catch of a batch pushes.
catchResult(testCase, error) ==
    [testCase |-> testCase,
     status |-> "ERROR",
     output |-> null,
     expected |-> testCase.expected_output,
     executionTime |-> null,
     memory |-> null,
     error |-> error.message]

\* A mutant of InputToUse: the success flag is not looked at.
InputToUseWithoutSuccess(testCase, interpretation) ==
    IF Truthy(interpretation.formatted_input)
    THEN interpretation.formatted_input
    ELSE testCase.input_data

\* const inputToUse = interpretation.success && interpretation.formatted_input
\*     ? interpretation.formatted_input : testCase.input_data
InputToUse(testCase, interpretation) ==
    IF interpretation.success /\ Truthy(interpretation.formatted_input)
    THEN interpretation.formatted_input
    ELSE testCase.input_data

\* The two fields executeTestCasesWithLLM adds to a pushed record.
WithLLM(record, interpretation, usedInput) ==
    [testCase |-> record.testCase,
     status |-> record.status,
     output |-> record.output,
     expected |-> record.expected,
     executionTime |-> record.executionTime,
     memory |-> record.memory,
     error |-> record.error,
     llmInterpretation |-> interpretation,
     usedInput |-> usedInput]

\* A mutant of CatchUsedInput: the catch records the input submitted.
CatchUsedInputAsSubmitted(testCase, inputToUse) == inputToUse

\* The usedInput of the record the per-case catch of
\* executeTestCasesWithLLM pushes.
CatchUsedInput(testCase, inputToUse) == testCase.input_data

(***************************************************************************)
(* The state.                                                              *)
(***************************************************************************)
VARIABLES
    op,          \* the method of the service that was called
    actual,      \* the arguments of a direct call of compareOutput
    expected,
    language,    \* its language argument
    input,       \* the input argument of submitCode
    testCases,   \* the testCases argument of a batch
    pc,          \* where the call is: "interpret", "case", "submit",
                 \* "posting", "wait", "fetching", "sleeping", "done", "thrown"
    i,           \* the batch loop: the index of the test case in hand
    interpretedTestCases,  \* what llmService.interpretTestCases returned
    token,       \* the token submitCode returned
    maxWaitTime, \* the maxWaitTime argument of waitForSubmission
    startTime,   \* startTime of waitForSubmission
    now,         \* what Date.now() returns, in milliseconds
    results,     \* the results array of a batch
    ret,         \* <<v>> once the call has returned v
    thrown,      \* <<e>> once the call has thrown e
    job,         \* the engine's job for the token: its status id (0: the
                 \* engine reports no status object), when it was created,
                 \* when it became terminal (-1: not yet)
    posts,       \* every POST /submissions sent, in order
    fetches,     \* the GET /submissions/:token sent by this wait
    fetchAt,     \* when the last of them was sent
    observed,    \* the completed results this wait has been given, in order
    trace        \* per finished test case: how its pipeline ended, whether
                 \* a submission was posted and with what stdin, and the
                 \* status id and stdout of the completed result, if any

vars == << op, actual, expected, language, input, testCases, pc, i, interpretedTestCases,
           token, maxWaitTime, startTime, now, results, ret, thrown, job,
           posts, fetches, fetchAt, observed, trace >>

BatchOps == {"executeTestCases", "executeTestCasesWithLLM"}

NoJob == [sid |-> 0, createdAt |-> 0, terminalAt |-> -1]

InitCommon ==
    /\ actual = null
    /\ expected = null
    /\ i = 1
    /\ interpretedTestCases = <<>>
    /\ startTime = 0
    /\ now = 0
    /\ results = <<>>
    /\ ret = <<>>
    /\ thrown = <<>>
    /\ posts = <<>>
    /\ fetches = 0
    /\ fetchAt = 0
    /\ observed = <<>>
    /\ trace = <<>>

\* A call of submitCode(code, language, input).
InitSubmit ==
    /\ op = "submitCode"
    /\ language \in Languages
    /\ input \in Inputs
    /\ testCases = <<>>
    /\ pc = "submit"
    /\ token = null
    /\ maxWaitTime = 0
    /\ job = NoJob
    /\ InitCommon

\* A call of waitForSubmission(token, maxWaitTime) for a job of the engine.
InitWait ==
    /\ op = "waitForSubmission"
    /\ language = <<>>
    /\ input = <<>>
    /\ testCases = <<>>
    /\ pc = "wait"
    /\ token = <<"tok">>
    /\ maxWaitTime \in WaitBudgets
    /\ \E sid \in {0} \cup PendingIds \cup TerminalIds :
         job = [sid |-> sid, createdAt |-> 0,
                terminalAt |-> IF sid \in TerminalIds THEN 0 ELSE -1]
    /\ InitCommon

\* A call of executeCode(code, language, input).
InitExec ==
    /\ op = "executeCode"
    /\ language \in RunLanguages
    /\ input \in Inputs
    /\ testCases = <<>>
    /\ pc = "submit"
    /\ token = null
    /\ maxWaitTime = 0
    /\ job = NoJob
    /\ InitCommon

\* A call of executeTestCases or executeTestCasesWithLLM.
Init ==
    /\ op \in BatchOps
    /\ language \in RunLanguages
    /\ input = <<>>
    /\ testCases \in TestCaseLists
    /\ pc = IF op = "executeTestCasesWithLLM" THEN "interpret" ELSE "case"
    /\ token = null
    /\ maxWaitTime = 0
    /\ job = NoJob
    /\ InitCommon

(***************************************************************************)
(* How a step hands control back to the caller.                            *)
(***************************************************************************)
\* interpretedTestCases[i]
Interpretation(k) ==
    IF k \in DOMAIN interpretedTestCases
    THEN interpretedTestCases[k] ELSE NoInterpretation

\* A mutant of Push: the loop is left after the push.
PushAndBreak(record, entry) ==
    /\ results' = Append(results, record)
    /\ trace' = Append(trace, entry)
    /\ i' = Len(testCases) + 1
    /\ pc' = "case"
    /\ UNCHANGED << ret, thrown >>

\* A mutant of Push: the interpreted batch asks for the interpretations
\* again before each further test case.
PushAndReinterpret(record, entry) ==
    /\ results' = Append(results, record)
    /\ trace' = Append(trace, entry)
    /\ i' = i + 1
    /\ pc' = IF op = "executeTestCasesWithLLM" /\ i < Len(testCases)
             THEN "interpret" ELSE "case"
    /\ UNCHANGED << ret, thrown >>

\* results.push(record): the test case in hand is finished, and the loop
\* goes on to the next.
Push(record, entry) ==
    /\ results' = Append(results, record)
    /\ trace' = Append(trace, entry)
    /\ i' = i + 1
    /\ pc' = "case"
    /\ UNCHANGED << ret, thrown >>

\* A mutant of Rethrow: the outer catch throws a new error that quotes the
\* one caught.
RethrowWrapped(error) ==
    /\ pc' = "thrown"
    /\ thrown' = <<Error(<<"Execution failed: ">> \o error.message)>>
    /\ UNCHANGED << i, results, ret, trace >>

\* throw error, out of the call (the outer catch blocks rethrow it).
Rethrow(error) ==
    /\ pc' = "thrown"
    /\ thrown' = <<error>>
    /\ UNCHANGED << i, results, ret, trace >>

\* The per-case catch of a batch: an ERROR record is pushed.
CatchCase(error, how) ==
    LET testCase == testCases[i]
        posted == pc \notin {"case", "submit"}
        base == catchResult(testCase, error)
    IN  Push(IF op = "executeTestCasesWithLLM"
             THEN WithLLM(base, Interpretation(i),
                          CatchUsedInput(testCase, input))
             ELSE base,
             [outcome |-> how, posted |-> posted,
              stdin |-> IF posted THEN posts[Len(posts)].stdin ELSE null,
              sid |-> 0, stdout |-> null, compared |-> FALSE])

\* A mutant of Raise: a batch has no per-case catch.
RaiseWithoutCatch(error, how) == Rethrow(error)

\* A mutant of Raise: the first submission that fails is sent again.
RaiseRetryOnce(error, how) ==
    IF pc = "posting" /\ Len(posts) = 1
    THEN /\ pc' = "submit"
         /\ UNCHANGED << i, results, ret, thrown, trace >>
    ELSE IF op \in BatchOps THEN CatchCase(error, how) ELSE Rethrow(error)

\* An error thrown while the call is at pc.  submitCode, waitForSubmission
\* and executeCode throw it to their caller; in a batch the per-case catch
\* takes it.
Raise(error, how) ==
    IF op \in BatchOps THEN CatchCase(error, how) ELSE Rethrow(error)

\* waitForSubmission returns result.
Completed(result) ==
    IF op = "waitForSubmission"
    THEN /\ pc' = "done"
         /\ ret' = <<result>>
         /\ UNCHANGED << i, results, thrown, trace >>
    ELSE IF op = "executeCode"
    THEN /\ pc' = "done"
         /\ ret' = <<executeCodeReturn(result)>>
         /\ UNCHANGED << i, results, thrown, trace >>
    ELSE LET testCase == testCases[i]
             built == caseResult(testCase, result)
         IN  Push(IF op = "executeTestCasesWithLLM"
                  THEN WithLLM(built.record, Interpretation(i), input)
                  ELSE built.record,
                  [outcome |-> "completed", posted |-> TRUE,
                   stdin |-> posts[Len(posts)].stdin,
                   sid |-> result.status.id, stdout |-> result.stdout,
                   compared |-> built.compared])

\* The locals of a loop iteration and of the calls made in it (and the
\* engine's job for its token) are dropped when the iteration ends.
LeaveScope(nextObserved) ==
    IF pc' = "case"
    THEN /\ input' = <<>>
         /\ token' = null
         /\ maxWaitTime' = 0
         /\ startTime' = 0
         /\ job' = NoJob
         /\ observed' = <<>>
    ELSE /\ observed' = nextObserved
         /\ UNCHANGED << input, token, maxWaitTime, startTime, job >>

(***************************************************************************)
(* executeTestCasesWithLLM: the interpretation of the test cases.           *)
(***************************************************************************)
\* The lists llmService.interpretTestCases may return for n test cases: one
\* interpretation per test case (every kind at every place), or a list
\* that is one short.
InterpretationKinds ==
    << [success |-> TRUE,  formatted_input |-> <<"1","\n","2">>],
       [success |-> FALSE, formatted_input |-> <<"?","?">>],
       [success |-> TRUE,  formatted_input |-> <<>>],
       [success |-> FALSE, formatted_input |-> null] >>

InterpretationLists(n) ==
    { [k \in 1..m |->
          InterpretationKinds[((k + r) % Len(InterpretationKinds)) + 1]] :
      r \in 1..Len(InterpretationKinds), m \in {n} }
    \cup
    { [k \in 1..m |-> InterpretationKinds[1]] : m \in {n - 1} \cap Nat }

\* await llmService.interpretTestCases(testCases, language, problemContext)
\* settles: with a list, or with an error, which the outer catch rethrows.
InterpretRecv ==
    /\ pc = "interpret"
    /\ \E outcome \in [kind : {"list"},
                       list : InterpretationLists(Len(testCases))]
                 \cup {[kind |-> "error",
                        message |-> <<"LLM request failed">>]} :
         IF outcome.kind = "list"
         THEN /\ interpretedTestCases' = outcome.list
              /\ pc' = "case"
              /\ UNCHANGED thrown
         ELSE /\ pc' = "thrown"
              /\ thrown' = <<Error(outcome.message)>>
              /\ UNCHANGED interpretedTestCases
    /\ UNCHANGED << actual, expected, op, language, input, testCases, i, token, maxWaitTime,
                    startTime, now, results, ret, job, posts, fetches,
                    fetchAt, observed, trace >>

(***************************************************************************)
(* The loop of a batch.                                                    *)
(***************************************************************************)
\* The head of the for loop: return results after the last test case; else
\* take the next one and call submitCode with its input.
NextCase ==
    /\ pc = "case"
    /\ op \in BatchOps
    /\ IF i > Len(testCases)
       THEN /\ pc' = "done"
            /\ ret' = <<results>>
            /\ UNCHANGED << input, i, results, thrown, trace >>
       ELSE IF op = "executeTestCases"
       THEN /\ input' = testCases[i].input_data
            /\ pc' = "submit"
            /\ UNCHANGED << i, results, ret, thrown, trace >>
       ELSE IF Interpretation(i) = NoInterpretation
       THEN /\ Raise(InterpretationTypeError, "interpretation")
            /\ UNCHANGED input
       ELSE /\ input' = InputToUse(testCases[i], Interpretation(i))
            /\ pc' = "submit"
            /\ UNCHANGED << i, results, ret, thrown, trace >>
    /\ UNCHANGED << actual, expected, op, language, testCases, interpretedTestCases, token,
                    maxWaitTime, startTime, now, job, posts, fetches,
                    fetchAt, observed >>

(***************************************************************************)
(* submitCode.                                                             *)
(***************************************************************************)
\* The body of POST /submissions.
Submission(languageId, stdin) ==
    [language_id |-> languageId, stdin |-> stdin, base64_encoded |-> TRUE]

\* submitCode up to its await: the language is looked up and, when the
\* lookup gives something truthy, the submission is posted.
SubmitCodeSend ==
    /\ pc = "submit"
    /\ LET languageId == PropertyRead(toLowerCase(language))
       IN  IF Falsy(languageId)
           THEN /\ Raise(UnsupportedLanguage(language), "submit")
                /\ UNCHANGED posts
           ELSE /\ posts' = Append(posts, Submission(languageId, input))
                /\ pc' = "posting"
                /\ UNCHANGED << i, results, ret, thrown, trace >>
    /\ UNCHANGED << actual, expected, op, language, input, testCases, interpretedTestCases,
                    token, maxWaitTime, startTime, now, job, fetches,
                    fetchAt, observed >>

\* The maxWaitTime the caller of submitCode passes to waitForSubmission.
WaitBudget ==
    IF op = "executeCode" THEN ExecMaxWaitTime ELSE DefaultMaxWaitTime

\* axios.post settles.  With a token (the engine has queued a job),
\* submitCode returns it, and its caller goes on to waitForSubmission; with
\* an error, the catch block rethrows.
SubmitCodeRecv ==
    /\ pc = "posting"
    /\ \E outcome \in PostOutcomes :
         IF outcome.kind = "token"
         THEN /\ token' = outcome.token
              /\ job' = [sid |-> 1, createdAt |-> now, terminalAt |-> -1]
              /\ IF op = "submitCode"
                 THEN /\ pc' = "done"
                      /\ ret' = <<outcome.token>>
                      /\ UNCHANGED maxWaitTime
                 ELSE /\ pc' = "wait"
                      /\ maxWaitTime' = WaitBudget
                      /\ UNCHANGED ret
              /\ UNCHANGED << i, results, thrown, trace >>
         ELSE /\ Raise(SubmitCatch(outcome.message,
                                   IF outcome.kind = "http"
                                   THEN outcome.status ELSE 0),
                       "submit")
              /\ UNCHANGED << token, job, maxWaitTime >>
    /\ UNCHANGED << actual, expected, op, language, input, testCases, interpretedTestCases,
                    startTime, now, posts, fetches, fetchAt, observed >>

(***************************************************************************)
(* waitForSubmission.                                                      *)
(***************************************************************************)
\* The environment still acts freely on the job.
Active == now - job.createdAt <= ActiveMs

\* A mutant of WhileHead: the loop runs for twice the budget.
WhileHeadTwiceBudget(t, start) ==
    IF t - start < 2 * maxWaitTime
    THEN /\ pc' = "fetching"
         /\ fetches' = fetches + 1
         /\ fetchAt' = t
         /\ UNCHANGED << i, results, ret, thrown, trace >>
    ELSE /\ Raise(SubmissionTimeout, "timeout")
         /\ fetches' = IF pc' = "case" THEN 0 ELSE fetches
         /\ fetchAt' = IF pc' = "case" THEN 0 ELSE fetchAt

\* A mutant of WhileHead: the loop condition is <= maxWaitTime.
WhileHeadInclusive(t, start) ==
    IF t - start <= maxWaitTime
    THEN /\ pc' = "fetching"
         /\ fetches' = fetches + 1
         /\ fetchAt' = t
         /\ UNCHANGED << i, results, ret, thrown, trace >>
    ELSE /\ Raise(SubmissionTimeout, "timeout")
         /\ fetches' = IF pc' = "case" THEN 0 ELSE fetches
         /\ fetchAt' = IF pc' = "case" THEN 0 ELSE fetchAt

\* The head of the while loop at time t: another fetch is sent while
\* t - startTime < maxWaitTime; else 'Submission timeout' is thrown.
WhileHead(t, start) ==
    IF t - start < maxWaitTime
    THEN /\ pc' = "fetching"
         /\ fetches' = fetches + 1
         /\ fetchAt' = t
         /\ UNCHANGED << i, results, ret, thrown, trace >>
    ELSE /\ Raise(SubmissionTimeout, "timeout")
         /\ fetches' = IF pc' = "case" THEN 0 ELSE fetches
         /\ fetchAt' = IF pc' = "case" THEN 0 ELSE fetchAt

\* A mutant of WaitBegin: the wait is not awaited; the loop of a batch goes
\* on to the next test case while the job is still out.
WaitBeginDetached ==
    /\ pc = "wait"
    /\ pc' = "case"
    /\ i' = i + 1
    /\ UNCHANGED << actual, expected, op, language, input, testCases, interpretedTestCases,
                    token, maxWaitTime, startTime, now, results, ret,
                    thrown, job, posts, fetches, fetchAt, observed, trace >>

\* A mutant of WaitBegin: startTime is not read anew; the budget runs from
\* the start of the call.
WaitBeginStaleStart ==
    /\ pc = "wait"
    /\ startTime' = 0
    /\ observed' = <<>>
    /\ pc' = "fetching"
    /\ fetches' = 1
    /\ fetchAt' = now
    /\ UNCHANGED << actual, expected, op, language, input, testCases, i,
                    interpretedTestCases, token, maxWaitTime, now, results,
                    ret, thrown, job, posts, trace >>

\* waitForSubmission is entered: startTime is read, and the loop begins.
WaitBegin ==
    /\ pc = "wait"
    /\ startTime' = now
    /\ observed' = <<>>
    /\ IF 0 < maxWaitTime
       THEN /\ pc' = "fetching"
            /\ fetches' = 1
            /\ fetchAt' = now
            /\ UNCHANGED << i, results, ret, thrown, trace >>
       ELSE /\ Raise(SubmissionTimeout, "timeout")
            /\ fetches' = 0
            /\ UNCHANGED fetchAt
    /\ UNCHANGED << actual, expected, op, language, input, testCases, interpretedTestCases,
                    token, maxWaitTime, now, job, posts >>

\* How a fetch may end: with the engine's record of the job, or with an
\* error; at once, or after SlowFetchMs.
FetchOutcomes ==
    { [kind |-> "data", data |-> w, latency |-> d] :
      w \in WireResponses(job.sid),
      d \in {0} \cup (IF Active THEN {SlowFetchMs} ELSE {}) }
    \cup
    (IF Active
     THEN { [kind |-> "error", message |-> <<"Network Error">>,
             latency |-> d] : d \in {0, SlowFetchMs} }
     ELSE {})

\* await this.getSubmissionResult(token) settles.  A completed result is
\* returned; any other is followed by the one-second sleep; an error is
\* rethrown.
FetchRecv ==
    /\ pc = "fetching"
    /\ \E outcome \in FetchOutcomes :
         /\ now' = now + outcome.latency
         /\ IF outcome.kind = "error"
            THEN /\ Raise(FetchCatch(outcome.message), "fetch")
                 /\ LeaveScope(observed)
            ELSE LET result == decodeBase64Response(outcome.data)
                 IN  /\ IF IsCompleted(result)
                        THEN Completed(result)
                        ELSE /\ pc' = "sleeping"
                             /\ UNCHANGED << i, results, ret, thrown, trace >>
                     /\ LeaveScope(IF job.sid \in TerminalIds
                                   THEN Append(observed, result)
                                   ELSE observed)
    /\ fetches' = IF pc' = "case" THEN 0 ELSE fetches
    /\ fetchAt' = IF pc' = "case" THEN 0 ELSE fetchAt
    /\ UNCHANGED << actual, expected, op, language, testCases, interpretedTestCases, posts >>

\* The timer of setTimeout(resolve, 1000) fires, and the loop comes back to
\* its head.
TimerFire ==
    /\ pc = "sleeping"
    /\ now' = now + PollIntervalMs
    /\ WhileHead(now', startTime)
    /\ LeaveScope(observed)
    /\ UNCHANGED << actual, expected, op, language, testCases, interpretedTestCases, posts >>

\* The engine moves the job on: from In Queue to Processing, or to a
\* terminal status, which it keeps.
EngineAdvance ==
    /\ pc \in {"fetching", "sleeping"}
    /\ job.sid \in PendingIds
    /\ Active
    /\ \E sid \in (PendingIds \cup TerminalIds) :
         /\ sid > job.sid
         /\ job' = [job EXCEPT !.sid = sid,
                               !.terminalAt = IF sid \in TerminalIds
                                              THEN now ELSE @]
    /\ UNCHANGED << actual, expected, op, language, input, testCases, pc, i,
                    interpretedTestCases, token, maxWaitTime, startTime,
                    now, results, ret, thrown, posts, fetches, fetchAt,
                    observed, trace >>

(***************************************************************************)
(* The specifications: one per method called.                              *)
(***************************************************************************)
NextSubmit == SubmitCodeSend \/ SubmitCodeRecv

SpecSubmit == InitSubmit /\ [][NextSubmit]_vars

NextWait == WaitBegin \/ FetchRecv \/ TimerFire \/ EngineAdvance

SpecWait == InitWait /\ [][NextWait]_vars

NextExec ==
    \/ SubmitCodeSend \/ SubmitCodeRecv
    \/ WaitBegin \/ FetchRecv \/ TimerFire \/ EngineAdvance

SpecExec == InitExec /\ [][NextExec]_vars

Next ==
    \/ InterpretRecv \/ NextCase
    \/ SubmitCodeSend \/ SubmitCodeRecv
    \/ WaitBegin \/ FetchRecv \/ TimerFire \/ EngineAdvance

Spec == Init /\ [][Next]_vars

\* A call of executeTestCases, under the assumption that every request is
\* answered (with a response or an error), that timers fire and that the
\* call itself keeps running; the engine need never move a job on.
InitPlain == Init /\ op = "executeTestCases"

NextPlain ==
    \/ NextCase
    \/ SubmitCodeSend \/ SubmitCodeRecv
    \/ WaitBegin \/ FetchRecv \/ TimerFire \/ EngineAdvance

Fairness ==
    /\ WF_vars(NextCase)
    /\ WF_vars(SubmitCodeSend)
    /\ WF_vars(SubmitCodeRecv)
    /\ WF_vars(WaitBegin)
    /\ WF_vars(FetchRecv)
    /\ WF_vars(TimerFire)

SpecTerminates == InitPlain /\ [][NextPlain]_vars /\ Fairness

\* compareOutput(actual, expected) is called and, when it has returned,
\* compareOutput(expected, actual).
InitCompare ==
    /\ op = "compareOutput"
    /\ actual \in Outputs
    /\ expected \in Outputs
    /\ language = <<>>
    /\ input = <<>>
    /\ testCases = <<>>
    /\ pc = "compare"
    /\ i = 1
    /\ interpretedTestCases = <<>>
    /\ token = null
    /\ maxWaitTime = 0
    /\ startTime = 0
    /\ now = 0
    /\ results = <<>>
    /\ ret = <<>>
    /\ thrown = <<>>
    /\ job = NoJob
    /\ posts = <<>>
    /\ fetches = 0
    /\ fetchAt = 0
    /\ observed = <<>>
    /\ trace = <<>>

\* The first call returns.
Compare ==
    /\ pc = "compare"
    /\ ret' = <<compareOutput(actual, expected)>>
    /\ pc' = "swapped"
    /\ UNCHANGED << actual, expected, op, language, input, testCases, i,
                    interpretedTestCases, token, maxWaitTime, startTime,
                    now, results, thrown, job, posts, fetches, fetchAt,
                    observed, trace >>

\* The call with the arguments swapped returns.
CompareSwapped ==
    /\ pc = "swapped"
    /\ ret' = Append(ret, compareOutput(expected, actual))
    /\ pc' = "done"
    /\ UNCHANGED << actual, expected, op, language, input, testCases, i,
                    interpretedTestCases, token, maxWaitTime, startTime,
                    now, results, thrown, job, posts, fetches, fetchAt,
                    observed, trace >>

NextCompare == Compare \/ CompareSwapped

SpecCompare == InitCompare /\ [][NextCompare]_vars

\* A call of executeCode, or of a batch.
InitCalls == InitExec \/ Init

SpecCalls == InitCalls /\ [][Next]_vars

(***************************************************************************)
(* Properties.                                                             *)
(***************************************************************************)
\* The batch has returned: the array it returned.
Returned == ret[1]

\* results holds one record per test case, in the order of testCases.
SameLengthSameOrder(rs) ==
    /\ Len(rs) = Len(testCases)
    /\ \A k \in DOMAIN rs : rs[k].testCase = testCases[k]

\* C1: executeTestCases never throws, whatever the engine does (a failed
\* submission, a failed status fetch, a poll timeout, any terminal status);
\* what it returns holds exactly one record per test case, the k-th record
\* being that of the k-th test case.
C1_PlainBatchReturnsAll ==
    op = "executeTestCases" =>
        /\ pc # "thrown"
        /\ thrown = <<>>
        /\ Len(results) = i - 1
        /\ pc = "done" => SameLengthSameOrder(Returned)

\* C1, reached: a batch of two has returned, its first test case PASSED and
\* its second an ERROR of a poll timeout.
C1_Witness ==
    /\ op = "executeTestCases"
    /\ pc = "done"
    /\ Len(testCases) = 2
    /\ Returned[1].status = "PASSED"
    /\ Returned[2].status = "ERROR"
    /\ trace[2].outcome = "timeout"

\* C2: executeTestCasesWithLLM never throws, whatever the interpreter does
\* (the call fails, the list is short, entries have success false) and
\* whatever the engine does; what it returns holds one record per test case,
\* in order.
C2_LLMBatchReturnsAll ==
    op = "executeTestCasesWithLLM" =>
        /\ pc # "thrown"
        /\ pc = "done" => SameLengthSameOrder(Returned)

\* The status a test case gets from how the engine answered for it alone.
VerdictOf(testCase, entry) ==
    IF entry.outcome # "completed" THEN "ERROR"
    ELSE IF entry.sid = 3
         THEN IF compareOutput(entry.stdout, testCase.expected_output)
              THEN "PASSED" ELSE "FAILED"
    ELSE IF entry.sid = 4 THEN "FAILED"
    ELSE IF entry.sid = 5 THEN "TLE"
    ELSE IF entry.sid = 6 THEN "CE"
    ELSE "ERROR"

\* C3: in both batches, a test case whose pipeline throws gets an ERROR
\* record with a non-empty error message, and every test case, before and
\* after it, gets the status that the engine's answers for that test case
\* alone decide; none is skipped.
C3_PerCaseIsolation ==
    /\ Len(trace) = Len(results)
    /\ \A k \in DOMAIN results :
         /\ results[k].status = VerdictOf(testCases[k], trace[k])
         /\ trace[k].outcome # "completed" =>
              /\ results[k].status = "ERROR"
              /\ Truthy(results[k].error)
    /\ pc = "done" => Len(results) = Len(testCases)

\* C3, reached: the first test case failed at submission and the second was
\* still judged, in either batch.
C3_Witness ==
    /\ pc = "done"
    /\ Len(testCases) = 2
    /\ trace[1].outcome = "submit"
    /\ trace[1].posted
    /\ results[1].status = "ERROR"
    /\ trace[2].outcome = "completed"
    /\ results[2].status = "FAILED"

\* C4: for every language whose lower-cased form is not a key of the
\* language table, submitCode sends no submission to the engine and fails
\* with the unsupported-language error.
C4_UnsupportedRejectedBeforeNetwork ==
    (op = "submitCode" /\ toLowerCase(language) \notin getSupportedLanguages)
        => /\ posts = <<>>
           /\ pc \notin {"posting", "done"}
           /\ pc = "thrown" => thrown = <<UnsupportedLanguage(language)>>

\* C4, where it fails: a language that is not in the table was posted to the
\* engine, and submitCode returned a token.
C4_Witness ==
    /\ op = "submitCode"
    /\ toLowerCase(language) \notin getSupportedLanguages
    /\ Len(posts) = 1
    /\ pc = "done"
    /\ ret = << <<"tok">> >>

\* The wait has ended because a status fetch failed.
FetchFailed == pc = "thrown" /\ thrown # <<SubmissionTimeout>>

\* startTime + maxWaitTime
Deadline == startTime + maxWaitTime

\* C5, as stated (a wait ended by a failed fetch set aside): when the job
\* became terminal strictly before the deadline, the call has returned a
\* terminal result, no later than the deadline; when the job never became
\* terminal, the call has thrown 'Submission timeout'.
C5_TerminalBeforeDeadlineReturned ==
    (op = "waitForSubmission" /\ pc \in {"done", "thrown"} /\ ~FetchFailed)
        => /\ (job.terminalAt # -1 /\ job.terminalAt < Deadline)
                => /\ pc = "done"
                   /\ IsCompleted(Returned)
                   /\ now <= Deadline
           /\ job.terminalAt = -1 => thrown = <<SubmissionTimeout>>

\* C5, amended: the call returns only a terminal result, given by a fetch
\* that was sent strictly before the deadline (its answer may come after
\* it); it throws 'Submission timeout' only at or after the deadline, when
\* no fetch of the call was answered with a terminal status: the job is
\* still pending, or became terminal after the last fetch was sent, be it
\* before the deadline; any other error it throws is that of a failed
\* fetch.  A job that never becomes terminal never makes it return.
C5_WaitTiming ==
    op = "waitForSubmission" =>
        /\ pc = "done" =>
             /\ IsCompleted(Returned)
             /\ fetches >= 1
             /\ fetchAt - startTime < maxWaitTime
             /\ job.terminalAt # -1
             /\ job.terminalAt <= now
        /\ thrown = <<SubmissionTimeout>> =>
             /\ pc = "thrown"
             /\ now - startTime >= maxWaitTime
             /\ observed = <<>>
             /\ job.terminalAt = -1 \/ job.terminalAt >= fetchAt
        /\ pc = "thrown" =>
             thrown \in { <<SubmissionTimeout>>,
                          <<FetchCatch(<<"Network Error">>)>> }
        /\ job.terminalAt = -1 => pc # "done"

\* C5_WaitTiming, reached: the job became terminal strictly before the
\* deadline, after the last fetch, and the call threw 'Submission timeout'.
C5_Witness ==
    /\ op = "waitForSubmission"
    /\ thrown = <<SubmissionTimeout>>
    /\ fetches >= 1
    /\ job.terminalAt # -1
    /\ job.terminalAt < Deadline

\* C6: waitForSubmission returns only a result whose status id is above 2;
\* it is the answer to the first fetch of the call that found the job
\* terminal, and that fetch is the last of the call: no second terminal
\* answer is ever received, and none is received without returning.
C6_FirstTerminalReturned ==
    op = "waitForSubmission" =>
        /\ Len(observed) <= 1
        /\ observed # <<>> => pc = "done"
        /\ pc = "done" =>
             /\ HasStatus(Returned)
             /\ Returned.status.id > 2
             /\ Returned.status.id = job.sid
             /\ ret = observed

\* C6, reached: the call returned the terminal result of its second fetch,
\* the first having found the job pending.
C6_Witness ==
    /\ op = "waitForSubmission"
    /\ pc = "done"
    /\ fetches = 2
    /\ Returned.status.id \in TerminalIds
    /\ observed = <<Returned>>

\* C7: in both batches, the record of a test case whose wait returned a
\* terminal result with status id s has status PASSED when s = 3 and
\* compareOutput(stdout, expected_output) holds, FAILED when s = 3 and it
\* does not, FAILED when s = 4, TLE when s = 5, CE when s = 6 and ERROR for
\* any other s; compareOutput is called only when s = 3.
C7_VerdictMapping ==
    \A k \in DOMAIN results :
        trace[k].outcome = "completed" =>
            LET s == trace[k].sid
                verdict == results[k].status
                same == compareOutput(trace[k].stdout,
                                      testCases[k].expected_output)
            IN  /\ s > 2
                /\ (s = 3 /\ same) => verdict = "PASSED"
                /\ (s = 3 /\ ~same) => verdict = "FAILED"
                /\ s = 4 => verdict = "FAILED"
                /\ s = 5 => verdict = "TLE"
                /\ s = 6 => verdict = "CE"
                /\ s \notin {3, 4, 5, 6} => verdict = "ERROR"
                /\ trace[k].compared => s = 3

\* C7, reached: in the interpreted batch, a Wrong Answer whose stdout equals
\* the expected output is FAILED, uncompared, and an Accepted whose stdout
\* differs from the expected output is FAILED by the comparison.
C7_Witness ==
    /\ op = "executeTestCasesWithLLM"
    /\ Len(results) = 2
    /\ trace[1].outcome = "completed"
    /\ trace[1].sid = 4
    /\ compareOutput(trace[1].stdout, testCases[1].expected_output)
    /\ ~trace[1].compared
    /\ results[1].status = "FAILED"
    /\ trace[2].outcome = "completed"
    /\ trace[2].sid = 3
    /\ trace[2].compared
    /\ results[2].status = "FAILED"

\* The interpretation of test case k asks for the original input: success
\* is false, or formatted_input is absent or empty.
FallsBack(k) ==
    \/ ~interpretedTestCases[k].success
    \/ ~Truthy(interpretedTestCases[k].formatted_input)

\* C8: in the interpreted batch, for a test case whose interpretation has
\* success false or an absent or empty formatted_input, the stdin submitted
\* (if a submission was sent) and the usedInput recorded are both the
\* original input_data; for one whose interpretation has success true and a
\* formatted_input, the stdin submitted is formatted_input.
C8_InterpretedFallback ==
    op = "executeTestCasesWithLLM" =>
        \A k \in DOMAIN results \cap DOMAIN interpretedTestCases :
            IF FallsBack(k)
            THEN /\ results[k].usedInput = testCases[k].input_data
                 /\ trace[k].posted =>
                      trace[k].stdin = testCases[k].input_data
            ELSE trace[k].posted =>
                      trace[k].stdin = interpretedTestCases[k].formatted_input

\* C8, reached: of two test cases judged, one was submitted with its
\* original input although its interpretation, of success false, had a
\* formatted_input, and the other with the formatted_input.
C8_Witness ==
    /\ op = "executeTestCasesWithLLM"
    /\ Len(results) = 2
    /\ Len(interpretedTestCases) = 2
    /\ \E k \in 1..2 :
         /\ ~interpretedTestCases[k].success
         /\ Truthy(interpretedTestCases[k].formatted_input)
         /\ trace[k].outcome = "completed"
         /\ trace[k].stdin = testCases[k].input_data
         /\ trace[k].stdin # interpretedTestCases[k].formatted_input
         /\ results[k].usedInput = testCases[k].input_data
    /\ \E k \in 1..2 :
         /\ ~FallsBack(k)
         /\ trace[k].outcome = "completed"
         /\ trace[k].stdin = interpretedTestCases[k].formatted_input
         /\ trace[k].stdin # testCases[k].input_data

\* C9, as stated: in the interpreted batch, the usedInput of every test
\* case for which a submission was sent is the stdin of that submission,
\* however the test case ended.
C9_UsedInputIsSubmitted ==
    op = "executeTestCasesWithLLM" =>
        \A k \in DOMAIN results :
            trace[k].posted => results[k].usedInput = trace[k].stdin

\* C9, amended: in the interpreted batch, the usedInput of a test case
\* whose wait returned a result is the stdin of its submission; that of a
\* test case that ended in the per-case catch (the submission or a status
\* fetch failed, or the wait timed out) is the original input_data, whatever
\* was submitted.
C9_UsedInputRecorded ==
    op = "executeTestCasesWithLLM" =>
        \A k \in DOMAIN results :
            IF trace[k].outcome = "completed"
            THEN /\ trace[k].posted
                 /\ results[k].usedInput = trace[k].stdin
            ELSE results[k].usedInput = testCases[k].input_data

\* C9_UsedInputRecorded, reached: a formatted_input was submitted, the wait
\* timed out, and the record holds the original input_data.
C9_Witness ==
    /\ op = "executeTestCasesWithLLM"
    /\ \E k \in DOMAIN results :
         /\ trace[k].outcome = "timeout"
         /\ trace[k].posted
         /\ trace[k].stdin = interpretedTestCases[k].formatted_input
         /\ trace[k].stdin # testCases[k].input_data
         /\ results[k].usedInput = testCases[k].input_data

\* A field of the result that is absent or empty comes back as ''.
AsReceived(v) == IF Truthy(v) THEN v ELSE <<>>

\* C10: for the result received with status id 6, executeCode returns empty
\* stdout and stderr and a non-empty compile_output: the one received, or
\* 'Compilation Error' when that is absent or empty; with 5, empty stdout,
\* stderr 'Time Limit Exceeded' and empty compile_output; with 3, the stdout
\* received, or 'No output' when that is absent or empty, and the stderr and
\* compile_output received (absent read as empty).
C10_ExecShaping ==
    (op = "executeCode" /\ pc = "done") =>
        LET received == observed[1]
            s == received.status.id
        IN  /\ Len(observed) = 1
            /\ s = 6 =>
                 /\ Returned.stdout = <<>>
                 /\ Returned.stderr = <<>>
                 /\ Truthy(Returned.compile_output)
                 /\ Returned.compile_output =
                        IF Truthy(received.compile_output)
                        THEN received.compile_output
                        ELSE <<"Compilation Error">>
            /\ s = 5 =>
                 /\ Returned.stdout = <<>>
                 /\ Returned.stderr = <<"Time Limit Exceeded">>
                 /\ Returned.compile_output = <<>>
            /\ s = 3 =>
                 /\ Returned.stdout = IF Truthy(received.stdout)
                                      THEN received.stdout
                                      ELSE <<"No output">>
                 /\ Returned.stderr = AsReceived(received.stderr)
                 /\ Returned.compile_output =
                        AsReceived(received.compile_output)

\* C10, reached: a Compilation Error received with stdout, stderr and
\* compile_output came back with the first two cleared.
C10_Witness ==
    /\ op = "executeCode"
    /\ pc = "done"
    /\ observed[1].status.id = 6
    /\ Truthy(observed[1].stdout)
    /\ Truthy(observed[1].stderr)
    /\ Returned.stdout = <<>>
    /\ Returned.stderr = <<>>
    /\ Returned.compile_output = observed[1].compile_output

\* C11: for the result received with status id 4, executeCode returns the
\* stdout, stderr and compile_output received; with a terminal status id
\* other than 3, 4, 5 and 6, it returns empty stdout, the status description
\* as stderr ('Runtime Error' when there is none) and the compile_output
\* received (absent read as empty).
C11_ExecShapingOther ==
    (op = "executeCode" /\ pc = "done") =>
        LET received == observed[1]
            s == received.status.id
        IN  /\ s = 4 =>
                 /\ Returned.stdout = AsReceived(received.stdout)
                 /\ Returned.stderr = AsReceived(received.stderr)
                 /\ Returned.compile_output =
                        AsReceived(received.compile_output)
            /\ s \notin {3, 4, 5, 6} =>
                 /\ Returned.stdout = <<>>
                 /\ Returned.stderr = Or(StatusDescription(received),
                                         <<"Runtime Error">>)
                 /\ Returned.compile_output =
                        AsReceived(received.compile_output)

\* C11, where it fails: a result of status id 11 received with stdout and
\* stderr came back with that stdout, and with that stderr, which is not
\* the status description.
C11_Witness ==
    /\ op = "executeCode"
    /\ pc = "done"
    /\ observed[1].status.id = 11
    /\ Truthy(observed[1].status.description)
    /\ Truthy(Returned.stdout)
    /\ Returned.stdout = observed[1].stdout
    /\ Returned.stderr = observed[1].stderr
    /\ Returned.stderr # observed[1].status.description

\* The fields of a record executeCode returned that are populated.
Populated(record) ==
    { f \in {"stdout", "stderr", "compile_output"} : Truthy(record[f]) }

\* C12: in every record executeCode returns, exactly one of stdout,
\* compile_output and stderr is non-empty.
C12_ExactlyOnePopulated ==
    (op = "executeCode" /\ pc = "done") =>
        Cardinality(Populated(Returned)) = 1

\* C12, where it fails: an Accepted result received with stdout, stderr and
\* compile_output came back with all three.
C12_Witness ==
    /\ op = "executeCode"
    /\ pc = "done"
    /\ Returned.status.id = 3
    /\ Cardinality(Populated(Returned)) = 3

\* A request of the test case in hand (its submission, or a status fetch of
\* its wait) is out, or about to be sent.
InFlight == pc \in {"posting", "wait", "fetching", "sleeping"}

\* A submission was sent for test case k.
PostedFor(k) ==
    IF k \in DOMAIN trace THEN trace[k].posted ELSE k = i /\ InFlight

\* The test case the j-th submission sent was for, counting the test cases
\* in input order.
CaseOfPost(j) ==
    CHOOSE k \in 1..Len(testCases) :
        /\ PostedFor(k)
        /\ Cardinality({ m \in 1..k : PostedFor(m) }) = j

\* The stdin a batch submits for test case k.
StdinOf(k) ==
    IF op = "executeTestCasesWithLLM"
    THEN InputToUse(testCases[k], interpretedTestCases[k])
    ELSE testCases[k].input_data

\* C13: in both batches, while a request of a test case is out, the records
\* of all test cases before it, and of no other, have been appended; no
\* submission is sent for a test case before the record of the one before
\* it is appended; and the submissions sent are, in order, those of the
\* test cases in input order, one at most for each.
C13_SequentialBatch ==
    /\ (pc = "submit" \/ InFlight) =>
         /\ i \in DOMAIN testCases
         /\ Len(results) = i - 1
    /\ Len(posts) = Cardinality({ k \in DOMAIN testCases : PostedFor(k) })
    /\ Len(posts) <= Len(results) + (IF InFlight THEN 1 ELSE 0)
    /\ \A j \in DOMAIN posts :
         /\ PostedFor(CaseOfPost(j))
         /\ posts[j].stdin = StdinOf(CaseOfPost(j))
    /\ InFlight => CaseOfPost(Len(posts)) = i

\* C13, reached: the submission of the second test case is out, after the
\* record of the first, which was submitted too, was appended.
C13_Witness ==
    /\ pc = "posting"
    /\ i = 2
    /\ Len(results) = 1
    /\ trace[1].posted
    /\ Len(posts) = 2
    /\ posts[1].stdin = testCases[1].input_data
    /\ posts[2].stdin = testCases[2].input_data
    /\ posts[1].stdin # posts[2].stdin

\* In this step the submission of the test case (or call) in hand fails.
SubmissionFails == pc = "posting" /\ pc' \notin {"wait", "done"}

\* In this step a status fetch of the test case (or call) in hand fails.
FetchFails ==
    /\ pc = "fetching"
    /\ \/ thrown' # thrown
       \/ /\ Len(trace') > Len(trace)
          /\ trace'[Len(trace')].outcome = "fetch"

\* What a step of a call may do under C14.
NoRetryStep ==
    /\ pc \notin {"done", "thrown"}
    /\ Len(posts') <= Len(posts) + 1
    /\ (SubmissionFails \/ FetchFails) =>
         /\ posts' = posts
         /\ fetches' \in {0, fetches}
         /\ IF op \in BatchOps
            THEN /\ pc' = "case"
                 /\ i' = i + 1
                 /\ Len(results') = Len(results) + 1
            ELSE pc' = "thrown"

\* The submissions a call has sent are one at most for each test case begun
\* (a batch), one at most (executeCode).
AtMostOnePost ==
    IF op \in BatchOps
    THEN /\ Len(posts) <= Len(testCases)
         /\ Len(posts) <= Len(results) + (IF InFlight THEN 1 ELSE 0)
    ELSE Len(posts) <= 1

\* C14: a batch sends at most one submission per test case, and executeCode
\* at most one per call; the step in which a submission or a status fetch
\* fails sends nothing and ends the test case (its record is appended and
\* the loop moves on) or, in executeCode, the call, after which nothing
\* more is done.
C14_NoRetry == []AtMostOnePost /\ [][NoRetryStep]_vars

\* C14, reached: a batch returned after the submission of its first test
\* case failed and a status fetch of its second failed, having sent two
\* submissions.
C14_Witness ==
    /\ op = "executeTestCases"
    /\ pc = "done"
    /\ Len(testCases) = 2
    /\ trace[1].outcome = "submit"
    /\ trace[1].posted
    /\ trace[2].outcome = "fetch"
    /\ Len(posts) = 2

\* A text with its CRLF replaced by LF and then its outer white space
\* removed.
Normalised(s) == Trim(ReplaceCRLF(s))

\* C15: compareOutput(actual, expected) is false when either argument is
\* absent or the empty string; otherwise it is true exactly when the two
\* are equal once trimmed and with every CRLF replaced by LF; and
\* compareOutput(expected, actual) is the same.
C15_CompareOutput ==
    (op = "compareOutput" /\ pc \in {"swapped", "done"}) =>
        /\ (actual \in {null, <<>>} \/ expected \in {null, <<>>})
               => ret[1] = FALSE
        /\ (actual \notin {null, <<>>} /\ expected \notin {null, <<>>})
               => ret[1] = (Normalised(actual) = Normalised(expected))
        /\ pc = "done" => ret[2] = ret[1]

\* C15, reached: two texts that differ in their outer white space and in
\* their line ends compared equal, in both orders.
C15_Witness ==
    /\ op = "compareOutput"
    /\ pc = "done"
    /\ actual = <<"x", "\r", "\n", "y">>
    /\ expected = <<"x", "\n", "y", "\n">>
    /\ ret = <<TRUE, TRUE>>

\* The errors submitCode throws when its request fails.
SubmitErrors ==
    { SubmitCatch(o.message, IF o.kind = "http" THEN o.status ELSE 0) :
      o \in { q \in PostOutcomes : q.kind # "token" } }

\* C16: when submitCode or waitForSubmission throws inside executeCode (the
\* language is unsupported, the submission fails, a status fetch fails, the
\* wait times out), executeCode throws that very error and returns
\* nothing; after a failed submission no status fetch is sent.
C16_ExecPropagates ==
    op = "executeCode" =>
        /\ (pc = "thrown") = (thrown # <<>>)
        /\ pc = "thrown" =>
             /\ ret = <<>>
             /\ IF posts = <<>>
                THEN /\ thrown = <<UnsupportedLanguage(language)>>
                     /\ fetches = 0
                ELSE IF token = null
                THEN /\ thrown[1] \in SubmitErrors
                     /\ fetches = 0
                ELSE /\ fetches >= 1
                     /\ thrown[1] \in { SubmissionTimeout,
                                        FetchCatch(<<"Network Error">>) }
                     /\ thrown[1] = SubmissionTimeout =>
                            now - startTime >= ExecMaxWaitTime
        /\ pc = "done" => ret # <<>>

\* C16, reached: executeCode threw 'Submission timeout' after polling a job
\* that stayed pending.
C16_Witness ==
    /\ op = "executeCode"
    /\ pc = "thrown"
    /\ thrown = <<SubmissionTimeout>>
    /\ ret = <<>>
    /\ Len(posts) = 1
    /\ fetches >= 2

\* The test cases finished so far whose wait timed out.
TimedOut == { k \in DOMAIN trace : trace[k].outcome = "timeout" }

\* C17: in a batch, a test case whose wait timed out has status ERROR, with
\* the error 'Submission timeout'; the loop goes on to the next test case,
\* whose wait has its own full budget: it runs from the submission of that
\* test case, so that every timeout has taken a whole budget of its own.
C17_TimeoutRecoverable ==
    op \in BatchOps =>
        /\ \A k \in TimedOut :
             /\ results[k].status = "ERROR"
             /\ results[k].error = <<"Submission timeout">>
             /\ trace[k].posted
        /\ pc \in {"fetching", "sleeping"} =>
             /\ maxWaitTime = DefaultMaxWaitTime
             /\ startTime = job.createdAt
             /\ startTime >= Cardinality(TimedOut) * DefaultMaxWaitTime
             /\ fetchAt - startTime < maxWaitTime
        /\ now >= Cardinality(TimedOut) * DefaultMaxWaitTime
        /\ pc = "done" => Len(results) = Len(testCases)

\* C17, reached: the wait of the first test case timed out, and the second
\* was submitted after it, polled, and judged.
C17_Witness ==
    /\ op \in BatchOps
    /\ pc = "done"
    /\ Len(testCases) = 2
    /\ trace[1].outcome = "timeout"
    /\ results[1].status = "ERROR"
    /\ trace[2].outcome = "completed"
    /\ results[2].status = "TLE"
    /\ now >= DefaultMaxWaitTime

\* The call of llmService.interpretTestCases is out.
Interpreting == pc = "interpret"

\* While the interpreter is out, nothing has been done for any test case;
\* a test case that was submitted had its interpretation by then.
NothingBeforeInterpretation ==
    /\ Interpreting =>
         /\ op = "executeTestCasesWithLLM"
         /\ i = 1
         /\ posts = <<>>
         /\ results = <<>>
         /\ interpretedTestCases = <<>>
    /\ (op = "executeTestCasesWithLLM" /\ posts # <<>>) =>
         /\ ~Interpreting
         /\ \A k \in DOMAIN testCases :
              PostedFor(k) => k \in DOMAIN interpretedTestCases

\* No step calls the interpreter, and only the step that ends its one call
\* sets the interpretations.
NoSecondInterpretation ==
    /\ ~Interpreting'
    /\ ~Interpreting => interpretedTestCases' = interpretedTestCases

\* C18: the interpreted batch calls the interpreter once, at its start, for
\* all test cases; the call has ended before the first submission is sent,
\* and no other call of it is made, between submissions or after them.
C18_InterpretOnceFirst ==
    []NothingBeforeInterpretation /\ [][NoSecondInterpretation]_vars

\* C18, reached: the interpreted batch has sent the submissions of two test
\* cases, with the interpretations of both received before the first.
C18_Witness ==
    /\ op = "executeTestCasesWithLLM"
    /\ pc = "done"
    /\ Len(interpretedTestCases) = 2
    /\ Len(posts) = 2
    /\ Len(results) = 2

\* Within a wait, a fetch is sent only before the budget has run out, and
\* the fetches sent are no more than the budget holds poll intervals.
FetchBound ==
    pc \in {"fetching", "sleeping"} =>
        /\ fetches >= 1
        /\ fetchAt - startTime < maxWaitTime
        /\ (fetches - 1) * PollIntervalMs <= fetchAt - startTime
        /\ fetches * PollIntervalMs <= maxWaitTime

\* C19: when every request is answered or fails and timers fire,
\* executeTestCases returns, even if the engine leaves every job pending
\* for ever; within a wait no fetch is sent once maxWaitTime has gone by
\* since its start, so that a test case has at most maxWaitTime /
\* 1000 ms fetches.
C19_BatchTerminates == []FetchBound /\ <>(pc = "done")

\* C19, reached: a batch of two has returned although the job of each of
\* its test cases stayed pending to the end of its wait, after thirty
\* fetches each.
C19_Witness ==
    /\ op = "executeTestCases"
    /\ pc = "done"
    /\ Len(testCases) = 2
    /\ trace[1].outcome = "timeout"
    /\ trace[2].outcome = "timeout"
    /\ now >= 2 * DefaultMaxWaitTime

\* The statuses of a record that carries a verdict of the comparison.
Judged == {"PASSED", "FAILED"}

\* The statuses of a record that carries an error.
Failed == {"TLE", "CE", "ERROR"}

\* C20: in both batches, the error of every record is null exactly when its
\* status is PASSED or FAILED and a non-empty text when it is TLE, CE or
\* ERROR; and a record whose status is TLE, CE or ERROR has null output,
\* executionTime and memory.
C20_CaseResultFields ==
    \A k \in DOMAIN results :
        LET r == results[k]
        IN  /\ r.status \in Judged \cup Failed
            /\ (r.error = null) = (r.status \in Judged)
            /\ r.status \in Failed =>
                 /\ Truthy(r.error)
                 /\ r.output = null
                 /\ r.executionTime = null
                 /\ r.memory = null

\* C20, reached: a CE record with the compile_output received as its error,
\* and an ERROR record, of a status without description, with 'Unknown
\* Error'; both without output, time and memory.
C20_Witness ==
    /\ pc = "done"
    /\ Len(results) = 2
    /\ results[1].status = "CE"
    /\ results[1].error = <<"note">>
    /\ results[1].output = null
    /\ trace[2].outcome = "completed"
    /\ results[2].status = "ERROR"
    /\ results[2].error = <<"Unknown Error">>
    /\ results[2].memory = null

\* A text that is absent or the empty string.
Empty(t) == t \in {null, <<>>}

\* C21: in both batches, no test case is PASSED whose expected_output is
\* empty, nor one whose Accepted run gave an empty stdout; an Accepted run
\* with empty stdout for a test case with empty expected_output is FAILED.
C21_NeverPassedOnEmpty ==
    op \in BatchOps =>
        \A k \in DOMAIN results :
            /\ results[k].status = "PASSED" =>
                 /\ trace[k].outcome = "completed"
                 /\ trace[k].sid = 3
                 /\ ~Empty(testCases[k].expected_output)
                 /\ ~Empty(trace[k].stdout)
                 /\ ~Empty(results[k].output)
            /\ ( /\ trace[k].outcome = "completed"
                 /\ trace[k].sid = 3
                 /\ \/ Empty(trace[k].stdout)
                    \/ Empty(testCases[k].expected_output) )
                 => results[k].status = "FAILED"

\* C21, reached: the first test case PASSED, and the second, which expects
\* nothing, was Accepted with an empty stdout, compared, and FAILED.
C21_Witness ==
    /\ op \in BatchOps
    /\ pc = "done"
    /\ Len(results) = 2
    /\ results[1].status = "PASSED"
    /\ trace[2].outcome = "completed"
    /\ trace[2].sid = 3
    /\ trace[2].compared
    /\ trace[2].stdout = <<>>
    /\ testCases[2].expected_output = <<>>
    /\ results[2].status = "FAILED"

=============================================================================
